---- MODULE Spec2Model ----
(***************************************************************************)
(* The generation session of the Re-imaginator single-page application     *)
(* (src/index.tsx, and its aspect-ratio build src/unnamed/part_000): the   *)
(* React state of the App component, its event handlers, and the two       *)
(* asynchronous handlers (handleSubmit, handleImprovise) whose             *)
(* continuations run with the values their closure captured at the render  *)
(* in which the handler was invoked.                                       *)
(*                                                                         *)
(* Sequences are 1-based here and 0-based in the source; indices that the  *)
(* source passes around (indexToRemove) keep the source's 0-based value.   *)
(***************************************************************************)
EXTENDS Integers, Sequences, FiniteSets, TLC

\* ------------------------------------------------------------------ bounds
\* Files the user picks or drops over the whole session.
MaxFiles == 4
\* Largest batch of files in one pick or drop.
MaxBatch == 2
\* generateContent calls issued over the whole session.
MaxCalls == 1
\* handleImprovise invocations whose fetch has not settled yet.
MaxImprovise == 1
\* The history tiles the user opens are among the first MaxSelect.
MaxSelect == 2

\* ------------------------------------------------------- program constants
\* processFiles: slice(0, 3 - baseImages.length)
MaxImages == 3
\* handleSubmit: [newHistoryItem, ...prev.slice(0, 19)]
HistoryKeep == 19

VARIABLES
  build,                \* "base" (index.tsx) or "variant" (part_000)
  baseImages,           \* useState<File[]>
  baseImagePreviews,    \* useState<string[]>
  prompt,               \* useState<string>
  seed,                 \* useState<string>
  aspectRatio,          \* useState<AspectRatio> (variant build)
  generatedImage,       \* useState<string>
  isLoading,            \* useState<boolean>
  error,                \* useState<string>
  history,              \* useState<HistoryItem[]>
  activeTab,            \* useState<'generator' | 'history'>
  selectedHistoryItem,  \* useState<HistoryItem | null>: <<>> or <<item>>
  requests,             \* handleSubmit invocations suspended at an await
  improvises,           \* handleImprovise invocations suspended at an await
  blobStore,            \* the browser's blob URL store: blobStore[n] is the
                        \* File that the n-th created object URL refers to
  revokes,              \* revokes[n]: URL.revokeObjectURL calls on that URL
  calls,                \* generateContent calls issued so far
  sentText,             \* text part of the last generateContent call
  now                   \* the clock that Date.now() reads

draft == <<baseImages, baseImagePreviews, prompt, seed, aspectRatio>>
view == <<activeTab, selectedHistoryItem>>
env == <<blobStore, revokes, calls, sentText, now>>
vars == <<build, draft, generatedImage, isLoading, error, history, view,
          requests, improvises, env>>

\* ----------------------------------------------------------- input values
Prompts == {"", "sunset"}
Seeds == {"", "42"}
AspectRatios == {"1:1", "16:9", "9:16"}
Tabs == {"generator", "history"}

\* The n-th File the user hands to the page.
UserFile(n) ==
  [name |-> "upload", type |-> "image/png", bytes |-> "F" \o ToString(n)]

\* The inline data a response part may carry, and the parts of a response.
InlineDatas == { [data |-> "X", mimeType |-> "image/png"],
                 [data |-> "Y", mimeType |-> "image/jpeg"] }
TextPart == [text |-> "here you go", inlineData |-> <<>>]
ImagePart(d) == [text |-> "", inlineData |-> <<d>>]
PngX == [data |-> "X", mimeType |-> "image/png"]
JpegY == [data |-> "Y", mimeType |-> "image/jpeg"]
\* The responses tried: no candidate, text only, text before the image, and
\* two image-bearing parts.
Responses ==
  { <<>>, <<TextPart>>, <<TextPart, ImagePart(PngX)>>,
    <<ImagePart(PngX), ImagePart(JpegY)>> }

\* What a rejected generateContent call throws: an Error with a message, or
\* a value that is no Error (message <<>>).
Failures == { <<"fetch failed">>, <<>> }

\* ------------------------------------------------------------ JS helpers
Min(a, b) == IF a < b THEN a ELSE b
Max(a, b) == IF a > b THEN a ELSE b

\* Array.prototype.slice(start, end) for start >= 0: a negative end counts
\* from the end of the array.
Slice(s, start, end) ==
  LET e == IF end < 0 THEN Max(Len(s) + end, 0) ELSE Min(end, Len(s))
  IN  IF start >= e THEN <<>> ELSE SubSeq(s, start + 1, e)

\* Array.prototype.filter((_, index) => index !== indexToRemove)
RECURSIVE FilterIndex(_, _, _)
FilterIndexDropsPreceding(s, indexToRemove, index) ==
  IF s = <<>> THEN <<>>
  ELSE IF index = indexToRemove - 1
       THEN FilterIndex(Tail(s), indexToRemove, index + 1)
       ELSE <<Head(s)>> \o FilterIndex(Tail(s), indexToRemove, index + 1)
FilterIndex(s, indexToRemove, index) ==
  IF s = <<>> THEN <<>>
  ELSE IF index # indexToRemove
       THEN <<Head(s)>> \o FilterIndex(Tail(s), indexToRemove, index + 1)
       ELSE FilterIndex(Tail(s), indexToRemove, index + 1)

\* ------------------------------------------------- object URLs (browser)
\* URL.createObjectURL returns a fresh blob: URL on every call.
BlobUrl(n) == "blob:" \o ToString(n)
IsBlobUrl(url) == \E n \in 1..Len(blobStore) : BlobUrl(n) = url
BlobIndex(url) == CHOOSE n \in 1..Len(blobStore) : BlobUrl(n) = url

\* URL.revokeObjectURL(url): counted for object URLs, without effect on any
\* other URL (a data: URL is not in the blob URL store).
RevokeOne(rv, url) ==
  IF \E n \in 1..Len(rv) : BlobUrl(n) = url
  THEN [rv EXCEPT ![CHOOSE n \in 1..Len(rv) : BlobUrl(n) = url] = @ + 1]
  ELSE rv

\* urls.forEach(url => URL.revokeObjectURL(url))
RECURSIVE RevokeAll(_, _)
RevokeAll(rv, urls) ==
  IF urls = <<>> THEN rv ELSE RevokeAll(RevokeOne(rv, Head(urls)), Tail(urls))

\* `data:${mimeType};base64,${base64ImageBytes}`
DataUrl(d) == "data:" \o d.mimeType \o ";base64," \o d.data

\* fetch(imageUrl).blob() of a data: URL, and new File([blob], ..., {type}).
\* The blob's bytes are the decoded payload, written as the payload itself.
FetchBlob(url) == CHOOSE d \in InlineDatas : DataUrl(d) = url
ImprovisedFile(url) ==
  [name |-> "improvised", type |-> FetchBlob(url).mimeType,
   bytes |-> FetchBlob(url).data]

\* ------------------------------------------------------------------ Init
Init ==
  /\ build = "base"
  /\ baseImages = <<>>
  /\ baseImagePreviews = <<>>
  /\ prompt = ""
  /\ seed = ""
  /\ aspectRatio = "1:1"
  /\ generatedImage = ""
  /\ isLoading = FALSE
  /\ error = ""
  /\ history = <<>>
  /\ activeTab = "generator"
  /\ selectedHistoryItem = <<>>
  /\ requests = <<>>
  /\ improvises = <<>>
  /\ blobStore = <<>>
  /\ revokes = <<>>
  /\ calls = 0
  /\ sentText = ""
  /\ now = 0

\* Removal of the i-th suspended invocation once it has run to its end.
Without(s, i) == SubSeq(s, 1, i - 1) \o SubSeq(s, i + 1, Len(s))

\* --------------------------------------------------------- processFiles
\* handleImageChange / handleDrop with a batch of k files.  The drop target
\* stays active when the file input is disabled.
NewFilesUntruncated(batch) == batch
NewFilesFromEnd(batch) ==
  LET m == Min(Len(batch), MaxImages - Len(baseImages))
  IN  SubSeq(batch, Len(batch) - m + 1, Len(batch))
NewFiles(batch) == Slice(batch, 0, MaxImages - Len(baseImages))

processFilesAlwaysClearing(k) ==
  LET batch == [j \in 1..k |-> UserFile(Len(blobStore) + j)]
      newFiles == NewFiles(batch)
      m == Len(newFiles)
      newPreviews == [j \in 1..m |-> BlobUrl(Len(blobStore) + j)]
  IN  /\ activeTab = "generator"
      /\ Len(blobStore) + m <= MaxFiles
      /\ baseImages' = baseImages \o newFiles
      /\ baseImagePreviews' = baseImagePreviews \o newPreviews
      /\ blobStore' = blobStore \o newFiles
      /\ revokes' = revokes \o [j \in 1..m |-> 0]
      /\ generatedImage' = ""
      /\ error' = ""
      /\ UNCHANGED <<build, prompt, seed, aspectRatio, isLoading, history,
                     view, requests, improvises, calls, sentText, now>>
processFilesKeepingError(k) ==
  LET batch == [j \in 1..k |-> UserFile(Len(blobStore) + j)]
      newFiles == NewFiles(batch)
      m == Len(newFiles)
      newPreviews == [j \in 1..m |-> BlobUrl(Len(blobStore) + j)]
  IN  /\ activeTab = "generator"
      /\ Len(blobStore) + m <= MaxFiles
      /\ IF m = 0
         THEN UNCHANGED <<build, draft, generatedImage, isLoading, error,
                          history, view, requests, improvises, env>>
         ELSE /\ baseImages' = baseImages \o newFiles
              /\ baseImagePreviews' = baseImagePreviews \o newPreviews
              /\ blobStore' = blobStore \o newFiles
              /\ revokes' = revokes \o [j \in 1..m |-> 0]
              /\ generatedImage' = ""
              /\ UNCHANGED <<build, prompt, seed, aspectRatio, isLoading,
                             error, history, view, requests, improvises,
                             calls, sentText, now>>
processFiles(k) ==
  LET batch == [j \in 1..k |-> UserFile(Len(blobStore) + j)]
      newFiles == NewFiles(batch)
      m == Len(newFiles)
      newPreviews == [j \in 1..m |-> BlobUrl(Len(blobStore) + j)]
  IN  /\ activeTab = "generator"
      /\ Len(blobStore) + m <= MaxFiles
      /\ IF m = 0
         THEN UNCHANGED <<build, draft, generatedImage, isLoading, error,
                          history, view, requests, improvises, env>>
         ELSE /\ baseImages' = baseImages \o newFiles
              /\ baseImagePreviews' = baseImagePreviews \o newPreviews
              /\ blobStore' = blobStore \o newFiles
              /\ revokes' = revokes \o [j \in 1..m |-> 0]
              /\ generatedImage' = ""
              /\ error' = ""
              /\ UNCHANGED <<build, prompt, seed, aspectRatio, isLoading,
                             history, view, requests, improvises, calls,
                             sentText, now>>

\* ---------------------------------------------------- handleRemoveImage
\* One remove button per rendered preview.
handleRemoveImageKeepsPreview(indexToRemove) ==
  /\ activeTab = "generator"
  /\ indexToRemove \in 0..(Len(baseImagePreviews) - 1)
  /\ baseImages' = FilterIndex(baseImages, indexToRemove, 0)
  /\ revokes' = RevokeOne(revokes, baseImagePreviews[indexToRemove + 1])
  /\ UNCHANGED <<build, baseImagePreviews, prompt, seed, aspectRatio,
                 generatedImage, isLoading, error, history, view, requests,
                 improvises, blobStore, calls, sentText, now>>
handleRemoveImageRevokesFirst(indexToRemove) ==
  /\ activeTab = "generator"
  /\ indexToRemove \in 0..(Len(baseImagePreviews) - 1)
  /\ baseImages' = FilterIndex(baseImages, indexToRemove, 0)
  /\ baseImagePreviews' = FilterIndex(baseImagePreviews, indexToRemove, 0)
  /\ revokes' = RevokeOne(revokes, baseImagePreviews[1])
  /\ UNCHANGED <<build, prompt, seed, aspectRatio, generatedImage, isLoading,
                 error, history, view, requests, improvises, blobStore, calls,
                 sentText, now>>
handleRemoveImage(indexToRemove) ==
  /\ activeTab = "generator"
  /\ indexToRemove \in 0..(Len(baseImagePreviews) - 1)
  /\ baseImages' = FilterIndex(baseImages, indexToRemove, 0)
  /\ baseImagePreviews' = FilterIndex(baseImagePreviews, indexToRemove, 0)
  /\ revokes' = RevokeOne(revokes, baseImagePreviews[indexToRemove + 1])
  /\ UNCHANGED <<build, prompt, seed, aspectRatio, generatedImage, isLoading,
                 error, history, view, requests, improvises, blobStore, calls,
                 sentText, now>>

\* ------------------------------------------------- prompt / seed / ratio
setPrompt(p) ==
  /\ activeTab = "generator"
  /\ p # prompt
  /\ prompt' = p
  /\ UNCHANGED <<build, baseImages, baseImagePreviews, seed, aspectRatio,
                 generatedImage, isLoading, error, history, view, requests,
                 improvises, env>>

setSeed(s) ==
  /\ activeTab = "generator"
  /\ s # seed
  /\ seed' = s
  /\ UNCHANGED <<build, baseImages, baseImagePreviews, prompt, aspectRatio,
                 generatedImage, isLoading, error, history, view, requests,
                 improvises, env>>

setAspectRatio(r) ==
  /\ build = "variant"
  /\ activeTab = "generator"
  /\ r # aspectRatio
  /\ aspectRatio' = r
  /\ UNCHANGED <<build, baseImages, baseImagePreviews, prompt, seed,
                 generatedImage, isLoading, error, history, view, requests,
                 improvises, env>>

\* ---------------------------------------------------------- handleSubmit
ValidationMessage == "Please upload at least one image and provide a prompt."
NoImageMessage == "The AI didn't return an image. Try a different prompt."

\* The submit event reaches handleSubmit from the rendered form, whose
\* submit button carries disabled={isLoading || ...}.  The other two terms
\* of `disabled` repeat the handler's own validation, which the model keeps
\* as the handler's first branch.
SubmitEnabledIgnoringLoading ==
  activeTab = "generator"
SubmitEnabled ==
  activeTab = "generator" /\ ~isLoading

\* if (baseImages.length === 0 || !prompt)
ValidationIgnoresPrompt == Len(baseImages) = 0
ValidationFails == Len(baseImages) = 0 \/ prompt = ""

\* The closure of one handleSubmit invocation, suspended at its first await.
SubmitClosure ==
  [pc |-> "reading", baseImages |-> baseImages,
   baseImagePreviews |-> baseImagePreviews, prompt |-> prompt, seed |-> seed,
   aspectRatio |-> aspectRatio]

handleSubmitKeepingError ==
  /\ SubmitEnabled
  /\ IF ValidationFails
     THEN /\ error' = ValidationMessage
          /\ UNCHANGED <<build, draft, generatedImage, isLoading, history,
                         view, requests, improvises, env>>
     ELSE /\ calls < MaxCalls
          /\ isLoading' = TRUE
          /\ generatedImage' = ""
          /\ requests' = Append(requests, SubmitClosure)
          /\ UNCHANGED <<build, draft, error, history, view, improvises, env>>
handleSubmit ==
  /\ SubmitEnabled
  /\ IF ValidationFails
     THEN /\ error' = ValidationMessage
          /\ UNCHANGED <<build, draft, generatedImage, isLoading, history,
                         view, requests, improvises, env>>
     ELSE /\ calls < MaxCalls
          /\ isLoading' = TRUE
          /\ error' = ""
          /\ generatedImage' = ""
          /\ requests' = Append(requests, SubmitClosure)
          /\ UNCHANGED <<build, draft, history, view, improvises, env>>

\* const textPart = { text: prompt }, and in the variant build finalPrompt.
AspectInstruction(ratio) ==
  "\n\n**IMPORTANT**: The output image must have a strict aspect ratio of exactly "
  \o ratio \o ". This is a critical requirement."
TextSentCurrentRatio(r) ==
  IF build = "variant" THEN r.prompt \o AspectInstruction(aspectRatio)
  ELSE r.prompt
TextSent(r) ==
  IF build = "variant" THEN r.prompt \o AspectInstruction(r.aspectRatio)
  ELSE r.prompt

\* await Promise.all(baseImages.map(fileToGenerativePart)) resolves, and
\* generateContent is called.  The round trip to the service takes time: the
\* clock that the continuation reads is at least one tick later.
filesRead(i) ==
  /\ i \in 1..Len(requests)
  /\ requests[i].pc = "reading"
  /\ requests' = [requests EXCEPT ![i].pc = "calling"]
  /\ calls' = calls + 1
  /\ sentText' = TextSent(requests[i])
  /\ now' = now + 1
  /\ UNCHANGED <<build, draft, generatedImage, isLoading, error, history,
                 view, improvises, blobStore, revokes>>

\* fileToGenerativePart on a file the FileReader cannot read: onloadend
\* runs with reader.result === null, `.split` throws inside the event
\* handler, resolve is never called, and Promise.all never settles.  Only a
\* file picked from disk can become unreadable.
fileUnreadable(i) ==
  /\ i \in 1..Len(requests)
  /\ requests[i].pc = "reading"
  /\ \E j \in 1..Len(requests[i].baseImages) :
        requests[i].baseImages[j].name = "upload"
  /\ requests' = [requests EXCEPT ![i].pc = "hung"]
  /\ UNCHANGED <<build, draft, generatedImage, isLoading, error, history,
                 view, improvises, env>>

\* for (const part of parts) { if (part.inlineData) { ...; break; } }
RECURSIVE FirstInline(_)
LastInline(parts) ==
  IF parts = <<>> THEN <<>>
  ELSE IF FirstInline(Tail(parts)) # <<>> THEN FirstInline(Tail(parts))
       ELSE Head(parts).inlineData
FirstInline(parts) ==
  IF parts = <<>> THEN <<>>
  ELSE IF Head(parts).inlineData # <<>> THEN Head(parts).inlineData
       ELSE FirstInline(Tail(parts))

\* const newHistoryItem: HistoryItem = {...}
NewHistoryItemIdFromPrompt(r, imageUrl, t) ==
  LET item == [id |-> "history-" \o r.prompt,
               baseImagePreviews |->
                 IF Len(r.baseImages) > 0 THEN r.baseImagePreviews ELSE <<>>,
               prompt |-> r.prompt,
               generatedImage |-> imageUrl,
               seed |-> r.seed]
  IN  IF build = "variant"
      THEN [f \in DOMAIN item \cup {"aspectRatio"} |->
              IF f = "aspectRatio" THEN r.aspectRatio ELSE item[f]]
      ELSE item
NewHistoryItemFromCurrentDraft(r, imageUrl, t) ==
  LET item == [id |-> "history-" \o ToString(t),
               baseImagePreviews |->
                 IF Len(baseImages) > 0 THEN baseImagePreviews ELSE <<>>,
               prompt |-> prompt,
               generatedImage |-> imageUrl,
               seed |-> seed]
  IN  IF build = "variant"
      THEN [f \in DOMAIN item \cup {"aspectRatio"} |->
              IF f = "aspectRatio" THEN aspectRatio ELSE item[f]]
      ELSE item
NewHistoryItem(r, imageUrl, t) ==
  LET item == [id |-> "history-" \o ToString(t),
               baseImagePreviews |->
                 IF Len(r.baseImages) > 0 THEN r.baseImagePreviews ELSE <<>>,
               prompt |-> r.prompt,
               generatedImage |-> imageUrl,
               seed |-> r.seed]
  IN  IF build = "variant"
      THEN [f \in DOMAIN item \cup {"aspectRatio"} |->
              IF f = "aspectRatio" THEN r.aspectRatio ELSE item[f]]
      ELSE item

\* setHistory(prev => [newHistoryItem, ...prev.slice(0, 19)])
PrependAppending(item, prev) == Slice(prev, 0, HistoryKeep) \o <<item>>
PrependUncapped(item, prev) == <<item>> \o prev
Prepend(item, prev) == <<item>> \o Slice(prev, 0, HistoryKeep)

\* clearInputs() of the render in which the submit was made: its
\* baseImagePreviews are the closure's.
clearInputsSubmittedOnly(r) ==
  /\ revokes' = RevokeAll(revokes, r.baseImagePreviews)
  /\ baseImages' = SubSeq(baseImages, Len(r.baseImages) + 1, Len(baseImages))
  /\ baseImagePreviews' =
       SubSeq(baseImagePreviews, Len(r.baseImagePreviews) + 1,
              Len(baseImagePreviews))
  /\ prompt' = ""
  /\ seed' = ""
  /\ aspectRatio' = "1:1"
clearInputsKeepingRatio(r) ==
  /\ revokes' = RevokeAll(revokes, r.baseImagePreviews)
  /\ baseImages' = <<>>
  /\ baseImagePreviews' = <<>>
  /\ prompt' = ""
  /\ seed' = ""
  /\ aspectRatio' = aspectRatio
clearInputs(r) ==
  /\ revokes' = RevokeAll(revokes, r.baseImagePreviews)
  /\ baseImages' = <<>>
  /\ baseImagePreviews' = <<>>
  /\ prompt' = ""
  /\ seed' = ""
  /\ aspectRatio' = "1:1"

\* The response holds a part with inline data.
submitSuccess(i, inline) ==
  LET r == requests[i]
      imageUrl == DataUrl(inline[1])
  IN  /\ generatedImage' = imageUrl
      /\ history' = Prepend(NewHistoryItem(r, imageUrl, now), history)
      /\ clearInputs(r)
      /\ isLoading' = FALSE
      /\ requests' = Without(requests, i)
      /\ UNCHANGED <<build, error, view, improvises, blobStore, calls,
                     sentText, now>>

\* if (!foundImage) setError(...)
submitSoftFailureClearing(i) ==
  /\ error' = NoImageMessage
  /\ clearInputs(requests[i])
  /\ isLoading' = FALSE
  /\ requests' = Without(requests, i)
  /\ UNCHANGED <<build, generatedImage, history, view, improvises, blobStore,
                 calls, sentText, now>>
submitSoftFailure(i) ==
  /\ error' = NoImageMessage
  /\ isLoading' = FALSE
  /\ requests' = Without(requests, i)
  /\ UNCHANGED <<build, draft, generatedImage, history, view, improvises,
                 env>>

\* generateContent resolves with `response`.
serviceResponds(i, response) ==
  /\ i \in 1..Len(requests)
  /\ requests[i].pc = "calling"
  /\ IF FirstInline(response) # <<>>
     THEN submitSuccess(i, FirstInline(response))
     ELSE submitSoftFailure(i)

\* catch (err) { setError(`Error: ${errorMessage}. Please check ...`) }
ErrorMessageGeneric(failure) ==
  "Error: An unexpected error occurred."
  \o " Please check the console for more details."
ErrorMessage(failure) ==
  "Error: "
  \o (IF failure # <<>> THEN failure[1] ELSE "An unexpected error occurred.")
  \o ". Please check the console for more details."

\* generateContent rejects.
serviceRejects(i, failure) ==
  /\ i \in 1..Len(requests)
  /\ requests[i].pc = "calling"
  /\ error' = ErrorMessage(failure)
  /\ isLoading' = FALSE
  /\ requests' = Without(requests, i)
  /\ UNCHANGED <<build, draft, generatedImage, history, view, improvises,
                 env>>

\* -------------------------------------------------------- handleImprovise
ConversionMessage == "Could not use the generated image as a new base."

\* The two Improvise buttons: under the current result (rendered when
\* generatedImage && !isLoading) and in the history modal (rendered when
\* selectedHistoryItem, whatever isLoading is).
ImproviseSources ==
  (IF activeTab = "generator" /\ generatedImage # "" /\ ~isLoading
   THEN {generatedImage} ELSE {})
  \cup
  (IF selectedHistoryItem # <<>>
   THEN {selectedHistoryItem[1].generatedImage} ELSE {})

\* The closure of one handleImprovise invocation, suspended at await fetch.
handleImprovise(imageUrl) ==
  /\ imageUrl \in ImproviseSources
  /\ imageUrl # ""
  /\ Len(improvises) < MaxImprovise
  /\ improvises' = Append(improvises,
        [imageUrl |-> imageUrl, baseImagePreviews |-> baseImagePreviews,
         selectedHistoryItem |-> selectedHistoryItem # <<>>])
  /\ UNCHANGED <<build, draft, generatedImage, isLoading, error, history,
                 view, requests, env>>

\* fetch and blob() resolve: the rest of the try block.
improviseDoneClearingPrompt(i) ==
  /\ i \in 1..Len(improvises)
  /\ LET c == improvises[i]
     IN  /\ revokes' = RevokeAll(revokes, c.baseImagePreviews)
         /\ baseImages' = <<ImprovisedFile(c.imageUrl)>>
         /\ baseImagePreviews' = <<c.imageUrl>>
         /\ generatedImage' = ""
         /\ error' = ""
         /\ selectedHistoryItem' =
              IF c.selectedHistoryItem THEN <<>>
              ELSE selectedHistoryItem
         /\ activeTab' = "generator"
  /\ prompt' = ""
  /\ seed' = ""
  /\ aspectRatio' = "1:1"
  /\ improvises' = Without(improvises, i)
  /\ UNCHANGED <<build, isLoading, history, requests, blobStore, calls,
                 sentText, now>>
improviseDoneAppending(i) ==
  /\ i \in 1..Len(improvises)
  /\ LET c == improvises[i]
     IN  /\ revokes' = RevokeAll(revokes, c.baseImagePreviews)
         /\ baseImages' =
              Slice(baseImages \o <<ImprovisedFile(c.imageUrl)>>, 0, MaxImages)
         /\ baseImagePreviews' =
              Slice(baseImagePreviews \o <<c.imageUrl>>, 0, MaxImages)
         /\ generatedImage' = ""
         /\ error' = ""
         /\ selectedHistoryItem' =
              IF c.selectedHistoryItem THEN <<>>
              ELSE selectedHistoryItem
         /\ activeTab' = "generator"
  /\ improvises' = Without(improvises, i)
  /\ UNCHANGED <<build, prompt, seed, aspectRatio, isLoading, history,
                 requests, blobStore, calls, sentText, now>>
improviseDone(i) ==
  /\ i \in 1..Len(improvises)
  /\ LET c == improvises[i]
     IN  /\ revokes' = RevokeAll(revokes, c.baseImagePreviews)
         /\ baseImages' = <<ImprovisedFile(c.imageUrl)>>
         /\ baseImagePreviews' = <<c.imageUrl>>
         /\ generatedImage' = ""
         /\ error' = ""
         /\ selectedHistoryItem' =
              IF c.selectedHistoryItem THEN <<>>
              ELSE selectedHistoryItem
         /\ activeTab' = "generator"
  /\ improvises' = Without(improvises, i)
  /\ UNCHANGED <<build, prompt, seed, aspectRatio, isLoading, history,
                 requests, blobStore, calls, sentText, now>>

\* fetch or blob() rejects: the catch block.
improviseFailsClosingModal(i) ==
  /\ i \in 1..Len(improvises)
  /\ error' = ConversionMessage
  /\ selectedHistoryItem' = <<>>
  /\ activeTab' = "generator"
  /\ improvises' = Without(improvises, i)
  /\ UNCHANGED <<build, draft, generatedImage, isLoading, history, requests,
                 env>>
improviseFails(i) ==
  /\ i \in 1..Len(improvises)
  /\ error' = ConversionMessage
  /\ improvises' = Without(improvises, i)
  /\ UNCHANGED <<build, draft, generatedImage, isLoading, history, view,
                 requests, env>>

\* ----------------------------------------------------- history and view
\* The Clear History button is rendered in the history tab when the history
\* is not empty; `confirmed` is the answer to window.confirm.
handleClearHistoryUnconfirmed(confirmed) ==
  /\ activeTab = "history"
  /\ Len(history) > 0
  /\ history' = <<>>
  /\ UNCHANGED <<build, draft, generatedImage, isLoading, error, view,
                 requests, improvises, env>>
handleClearHistory(confirmed) ==
  /\ activeTab = "history"
  /\ Len(history) > 0
  /\ history' = IF confirmed THEN <<>> ELSE history
  /\ UNCHANGED <<build, draft, generatedImage, isLoading, error, view,
                 requests, improvises, env>>

setActiveTab(tab) ==
  /\ tab # activeTab
  /\ activeTab' = tab
  /\ UNCHANGED <<build, draft, generatedImage, isLoading, error, history,
                 selectedHistoryItem, requests, improvises, env>>

\* A click on a history tile, and the modal's close button or overlay.
selectHistoryItem(i) ==
  /\ activeTab = "history"
  /\ i \in 1..Len(history)
  /\ selectedHistoryItem # <<history[i]>>
  /\ selectedHistoryItem' = <<history[i]>>
  /\ UNCHANGED <<build, draft, generatedImage, isLoading, error, history,
                 activeTab, requests, improvises, env>>

closeModal ==
  /\ selectedHistoryItem # <<>>
  /\ selectedHistoryItem' = <<>>
  /\ UNCHANGED <<build, draft, generatedImage, isLoading, error, history,
                 activeTab, requests, improvises, env>>

\* ------------------------------------------------------ specifications
Next ==
  \/ \E k \in 1..MaxBatch : processFiles(k)
  \/ \E i \in 0..(MaxImages - 1) : handleRemoveImage(i)
  \/ \E p \in Prompts : setPrompt(p)
  \/ \E s \in Seeds : setSeed(s)
  \/ handleSubmit
  \/ \E i \in 1..MaxCalls : filesRead(i)
  \/ \E i \in 1..MaxCalls : fileUnreadable(i)
  \/ \E i \in 1..MaxCalls, response \in Responses : serviceResponds(i, response)
  \/ \E i \in 1..MaxCalls, failure \in Failures : serviceRejects(i, failure)
  \/ \E url \in ImproviseSources : handleImprovise(url)
  \/ \E i \in 1..MaxImprovise : improviseDone(i)
  \/ \E i \in 1..MaxImprovise : improviseFails(i)
  \/ \E c \in BOOLEAN : handleClearHistory(c)
  \/ \E tab \in Tabs : setActiveTab(tab)
  \/ \E i \in 1..MaxSelect : selectHistoryItem(i)
  \/ closeModal

Spec == Init /\ [][Next]_vars

\* The session after HistoryKeep + 1 successful generations: the first
\* MaxFiles - 1 each from one uploaded file, each later one from the
\* improvised previous result.  calls counts the generateContent calls
\* issued after this state.
PastItem(k) ==
  NewHistoryItem(
    [baseImages |-> <<UserFile(1)>>,
     baseImagePreviews |->
       IF k < MaxFiles THEN <<BlobUrl(k)>> ELSE <<DataUrl(PngX)>>,
     prompt |-> "sunset", seed |-> "", aspectRatio |-> "1:1"],
    DataUrl(PngX), k)

InitCap ==
  /\ build = "base"
  /\ baseImages = <<>>
  /\ baseImagePreviews = <<>>
  /\ prompt = ""
  /\ seed = ""
  /\ aspectRatio = "1:1"
  /\ generatedImage = DataUrl(PngX)
  /\ isLoading = FALSE
  /\ error = ""
  /\ history = [j \in 1..(HistoryKeep + 1) |-> PastItem(HistoryKeep + 2 - j)]
  /\ activeTab = "generator"
  /\ selectedHistoryItem = <<>>
  /\ requests = <<>>
  /\ improvises = <<>>
  /\ blobStore = [n \in 1..(MaxFiles - 1) |-> UserFile(n)]
  /\ revokes = [n \in 1..(MaxFiles - 1) |-> 1]
  /\ calls = 0
  /\ sentText = "sunset"
  /\ now = HistoryKeep + 1

SpecCap == InitCap /\ [][Next]_vars

\* The aspect-ratio build (src/unnamed/part_000): the same session with
\* the three aspect-ratio buttons, after the user has picked and removed
\* MaxFiles - 2 files.
InitVariant ==
  /\ build = "variant"
  /\ baseImages = <<>>
  /\ baseImagePreviews = <<>>
  /\ prompt = ""
  /\ seed = ""
  /\ aspectRatio = "1:1"
  /\ generatedImage = ""
  /\ isLoading = FALSE
  /\ error = ""
  /\ history = <<>>
  /\ activeTab = "generator"
  /\ selectedHistoryItem = <<>>
  /\ requests = <<>>
  /\ improvises = <<>>
  /\ blobStore = [n \in 1..(MaxFiles - 2) |-> UserFile(n)]
  /\ revokes = [n \in 1..(MaxFiles - 2) |-> 1]
  /\ calls = 0
  /\ sentText = ""
  /\ now = 0

NextVariant ==
  \/ Next
  \/ \E r \in AspectRatios : setAspectRatio(r)

SpecVariant == InitVariant /\ [][NextVariant]_vars

\* The session after one generation attempt that ended in a soft failure
\* (one image of MaxFiles - 1 picked so far, prompt "sunset", a response
\* without image), driven on through the rendered controls alone: the
\* submit button carries disabled={isLoading || baseImages.length === 0 ||
\* !prompt}, so no submit event reaches handleSubmit with a draft that
\* fails its validation.  calls counts the generateContent calls issued
\* after this state.
InitRetry ==
  /\ build = "base"
  /\ baseImages = <<UserFile(MaxFiles - 1)>>
  /\ baseImagePreviews = <<BlobUrl(MaxFiles - 1)>>
  /\ prompt = "sunset"
  /\ seed = ""
  /\ aspectRatio = "1:1"
  /\ generatedImage = ""
  /\ isLoading = FALSE
  /\ error = NoImageMessage
  /\ history = <<>>
  /\ activeTab = "generator"
  /\ selectedHistoryItem = <<>>
  /\ requests = <<>>
  /\ improvises = <<>>
  /\ blobStore = [n \in 1..(MaxFiles - 1) |-> UserFile(n)]
  /\ revokes = [n \in 1..(MaxFiles - 1) |-> IF n < MaxFiles - 1 THEN 1 ELSE 0]
  /\ calls = 0
  /\ sentText = "sunset"
  /\ now = 1

NextControls ==
  \/ \E k \in 1..MaxBatch : processFiles(k)
  \/ \E i \in 0..(MaxImages - 1) : handleRemoveImage(i)
  \/ \E p \in Prompts : setPrompt(p)
  \/ \E s \in Seeds : setSeed(s)
  \/ (~ValidationFails /\ handleSubmit)
  \/ \E i \in 1..MaxCalls : filesRead(i)
  \/ \E i \in 1..MaxCalls : fileUnreadable(i)
  \/ \E i \in 1..MaxCalls, response \in Responses : serviceResponds(i, response)
  \/ \E i \in 1..MaxCalls, failure \in Failures : serviceRejects(i, failure)
  \/ \E url \in ImproviseSources : handleImprovise(url)
  \/ \E i \in 1..MaxImprovise : improviseDone(i)
  \/ \E i \in 1..MaxImprovise : improviseFails(i)
  \/ \E c \in BOOLEAN : handleClearHistory(c)
  \/ \E tab \in Tabs : setActiveTab(tab)
  \/ \E i \in 1..MaxSelect : selectHistoryItem(i)
  \/ closeModal

SpecRetry == InitRetry /\ [][NextControls]_vars

\* The FileReader always ends a read (loadend, after load or error), and
\* the service call always settles (the service's own timeout governs).
readEnds == \E i \in 1..MaxCalls : filesRead(i) \/ fileUnreadable(i)
callSettles ==
  \/ \E i \in 1..MaxCalls, response \in Responses : serviceResponds(i, response)
  \/ \E i \in 1..MaxCalls, failure \in Failures : serviceRejects(i, failure)

SpecLive == Spec /\ WF_vars(readEnds) /\ WF_vars(callSettles)

\* --------------------------------------------------------------- claims
\* C1: at most one generation request is outstanding; a request exists
\* exactly while isLoading, and every request was started from a draft with
\* at least one base image and a non-empty prompt.
C1_SingleFlight ==
  /\ Len(requests) <= 1
  /\ isLoading <=> requests # <<>>
  /\ \A i \in 1..Len(requests) :
        Len(requests[i].baseImages) >= 1 /\ requests[i].prompt # ""
C1_Witness ==
  isLoading /\ Len(requests) = 1 /\ requests[1].pc = "calling"

\* C2: no object URL is revoked more than once.
C2_NoDoubleRelease == \A n \in 1..Len(revokes) : revokes[n] <= 1

\* C3: every object URL created is still a preview of the draft or has been
\* revoked.
C3_NoLeak ==
  \A n \in 1..Len(blobStore) :
    \/ \E i \in 1..Len(baseImagePreviews) : baseImagePreviews[i] = BlobUrl(n)
    \/ revokes[n] >= 1

\* C4: whenever a request is outstanding (isLoading), the session eventually
\* returns to Idle.
C4_RunsToCompletion == isLoading ~> ~isLoading

\* C5: the history never holds more than 20 items, and a successful
\* generation on a history of 20 items leaves 20 items: the new one first,
\* then the former items 0..18 in their order, the former item 19 gone.
C5_HistoryCapped ==
  /\ [](Len(history) <= 20)
  /\ [][ (/\ Len(history) = 20
          /\ \E i \in 1..Len(requests), response \in Responses :
                /\ \E j \in 1..Len(response) : response[j].inlineData # <<>>
                /\ serviceResponds(i, response))
        => (/\ Len(history') = 20
            /\ SubSeq(history', 2, 20) = SubSeq(history, 1, 19)
            /\ \A j \in 1..20 : history'[j] # history[20]) ]_vars
C5_Witness ==
  /\ Len(history) = 20
  /\ calls = 1
  /\ history[1].id = "history-21"
  /\ \A j \in 2..20 : history[j] = PastItem(22 - j)

\* C6: a successful generation prepends exactly one item, whose
\* generatedImage is the data URL of the first response part that carries
\* inline data, also when several parts carry inline data.
C6_PrependsFirstImage ==
  [][ \A i \in 1..Len(requests), response \in Responses :
        (/\ \E j \in 1..Len(response) : response[j].inlineData # <<>>
         /\ serviceResponds(i, response))
        => LET k == CHOOSE k \in 1..Len(response) :
                      /\ response[k].inlineData # <<>>
                      /\ \A j \in 1..(k - 1) : response[j].inlineData = <<>>
               first == response[k].inlineData[1]
               url == "data:" \o first.mimeType \o ";base64," \o first.data
           IN  /\ Len(history') >= 1
               /\ history'[1].generatedImage = url
               /\ generatedImage' = url
               /\ Len(history') = (IF Len(history) < 20 THEN Len(history) + 1
                                   ELSE 20)
               /\ Tail(history') =
                    SubSeq(history, 1, Len(history') - 1) ]_vars
C6_Witness ==
  /\ Len(history) = 1
  /\ history[1].generatedImage = "data:image/png;base64,X"
  /\ generatedImage = "data:image/png;base64,X"
  /\ ~isLoading

\* C7: the draft never holds more than 3 base images.
C7_AtMostThreeImages == Len(baseImages) <= 3
C7_Witness == Len(baseImages) = 3 /\ Len(blobStore) = 4

\* C8: the draft has as many previews as base images, and preview i shows
\* base image i: an object URL refers to that File in the blob URL store, a
\* data URL carries that File's type and bytes.
C8_PreviewsMatchImages ==
  /\ Len(baseImages) = Len(baseImagePreviews)
  /\ \A i \in 1..Len(baseImagePreviews) :
        LET url == baseImagePreviews[i]
            file == baseImages[i]
        IN  IF \E n \in 1..Len(blobStore) : url = "blob:" \o ToString(n)
            THEN \E n \in 1..Len(blobStore) :
                   url = "blob:" \o ToString(n) /\ blobStore[n] = file
            ELSE \E d \in InlineDatas :
                   /\ url = "data:" \o d.mimeType \o ";base64," \o d.data
                   /\ file.type = d.mimeType
                   /\ file.bytes = d.data
C8_Witness ==
  /\ Len(baseImagePreviews) = 2
  /\ baseImagePreviews[1] = "data:image/png;base64,X"
  /\ baseImagePreviews[2] = "blob:3"
  /\ revokes[2] = 1

\* C9: handleSubmit on a draft with no base image or an empty prompt sets
\* the validation message, starts no request, issues no call, and leaves
\* isLoading, the draft, the history and the current result as they were.
C9_InvalidSubmitRejected ==
  [][ (handleSubmit /\ (Len(baseImages) = 0 \/ prompt = ""))
      => (/\ error' = "Please upload at least one image and provide a prompt."
          /\ requests' = requests
          /\ calls' = calls
          /\ isLoading' = isLoading
          /\ ~isLoading'
          /\ draft' = draft
          /\ history' = history
          /\ generatedImage' = generatedImage) ]_vars
C9_Witness ==
  /\ error = "Please upload at least one image and provide a prompt."
  /\ Len(baseImages) = 0
  /\ prompt = "sunset"
  /\ generatedImage # ""
  /\ history # <<>>
  /\ ~isLoading

\* C10: when the response has no part with inline data, the completion
\* sets the no-image message, returns to Idle, and leaves the draft and the
\* history unchanged and revokes nothing.
C10_SoftFailureKeepsDraft ==
  [][ (\E i \in 1..Len(requests), response \in Responses :
         /\ \A j \in 1..Len(response) : response[j].inlineData = <<>>
         /\ serviceResponds(i, response))
      => (/\ error' = "The AI didn't return an image. Try a different prompt."
          /\ ~isLoading'
          /\ requests' = <<>>
          /\ draft' = draft
          /\ history' = history
          /\ revokes' = revokes) ]_vars
C10_Witness ==
  /\ error = "The AI didn't return an image. Try a different prompt."
  /\ ~isLoading
  /\ calls = 1
  /\ Len(baseImages) = 1
  /\ prompt = "sunset"
  /\ seed = "42"

C12_SuccessClearsDraft ==
  [][ (\E i \in 1..Len(requests), response \in Responses :
         /\ \E j \in 1..Len(response) : response[j].inlineData # <<>>
         /\ serviceResponds(i, response))
      => (/\ baseImages' = <<>>
          /\ baseImagePreviews' = <<>>
          /\ prompt' = ""
          /\ seed' = ""
          /\ aspectRatio' = "1:1"
          /\ ~isLoading'
          /\ requests' = <<>>) ]_vars
C12_Witness ==
  /\ baseImages = <<>>
  /\ baseImagePreviews = <<>>
  /\ prompt = ""
  /\ seed = ""
  /\ aspectRatio = "1:1"
  /\ ~isLoading
  /\ generatedImage = "data:image/png;base64,X"
  /\ Len(history) = 1
  /\ history[1].aspectRatio = "16:9"
  /\ history[1].seed = "42"
  /\ \E n \in 1..Len(revokes) : revokes[n] = 0

\* C13: when the fetch of an improvise resolves, the draft holds exactly
\* one base image, carrying the type and bytes of the image reference, and
\* exactly one preview, the image reference itself, whatever the draft held
\* before; the current result and the error are empty, the active tab is
\* the generator and no history item is inspected.
C13_ImproviseReplacesDraft ==
  [][ \A i \in 1..Len(improvises) :
        improviseDone(i)
        => (/\ Len(baseImages') = 1
            /\ \E d \in InlineDatas :
                  /\ improvises[i].imageUrl =
                       "data:" \o d.mimeType \o ";base64," \o d.data
                  /\ baseImages'[1].type = d.mimeType
                  /\ baseImages'[1].bytes = d.data
            /\ baseImagePreviews' = <<improvises[i].imageUrl>>
            /\ generatedImage' = ""
            /\ error' = ""
            /\ activeTab' = "generator"
            /\ selectedHistoryItem' = <<>>) ]_vars

\* C14: when the fetch of an improvise rejects, the error becomes exactly
\* "Could not use the generated image as a new base." and nothing else of
\* the session changes: draft, history, current result, active tab,
\* inspected item, isLoading and the outstanding request are as before and
\* no object URL is created or revoked (so every control is enabled or
\* disabled as it was).
C14_ImproviseFailureOnlySetsError ==
  [][ \A i \in 1..Len(improvises) :
        improviseFails(i)
        => (/\ error' = "Could not use the generated image as a new base."
            /\ draft' = draft
            /\ history' = history
            /\ generatedImage' = generatedImage
            /\ activeTab' = activeTab
            /\ selectedHistoryItem' = selectedHistoryItem
            /\ isLoading' = isLoading
            /\ requests' = requests
            /\ blobStore' = blobStore
            /\ revokes' = revokes) ]_vars
C14_Witness ==
  /\ error = "Could not use the generated image as a new base."
  /\ improvises = <<>>
  /\ Len(baseImages) = 1
  /\ baseImagePreviews = <<"blob:2">>
  /\ revokes[2] = 0
  /\ selectedHistoryItem # <<>>
  /\ activeTab = "history"

\* C15: a batch of k files handed to a draft of n < 3 images leaves the old
\* images followed by the first min(k, 3 - n) files of the batch, in batch
\* order, and the old previews followed by one fresh object URL per
\* accepted file in the same order, each referring to that file.
C15_AppendsFirstThatFit ==
  [][ \A k \in 1..MaxBatch :
        (processFiles(k) /\ Len(baseImages) < 3)
        => LET n == Len(baseImages)
               m == IF k < 3 - n THEN k ELSE 3 - n
               b == Len(blobStore)
           IN  /\ Len(baseImages') = n + m
               /\ SubSeq(baseImages', 1, n) = baseImages
               /\ \A j \in 1..m :
                     baseImages'[n + j] =
                       [name |-> "upload", type |-> "image/png",
                        bytes |-> "F" \o ToString(b + j)]
               /\ Len(baseImagePreviews') = Len(baseImagePreviews) + m
               /\ SubSeq(baseImagePreviews', 1, Len(baseImagePreviews))
                    = baseImagePreviews
               /\ \A j \in 1..m :
                     LET url == baseImagePreviews'[Len(baseImagePreviews) + j]
                     IN  /\ url = "blob:" \o ToString(b + j)
                         /\ blobStore'[b + j] = baseImages'[n + j]
                         /\ revokes'[b + j] = 0
                         /\ \A i \in 1..Len(baseImagePreviews) :
                               baseImagePreviews[i] # url ]_vars
C15_Witness ==
  /\ Len(baseImages) = 3
  /\ \A j \in 1..3 : baseImages[j].bytes = "F" \o ToString(j + 1)
  /\ baseImagePreviews = <<"blob:2", "blob:3", "blob:4">>
  /\ revokes = <<1, 0, 0, 0>>

\* C16: the remove button of index i < len(baseImages) removes exactly the
\* image and the preview at index i, keeps the others in their order, and
\* revokes the removed preview's object URL and no other.
C16_RemovesExactlyOne ==
  [][ \A i \in 0..(MaxImages - 1) :
        (handleRemoveImage(i) /\ i < Len(baseImages))
        => (/\ baseImages' =
                 SubSeq(baseImages, 1, i)
                 \o SubSeq(baseImages, i + 2, Len(baseImages))
            /\ baseImagePreviews' =
                 SubSeq(baseImagePreviews, 1, i)
                 \o SubSeq(baseImagePreviews, i + 2, Len(baseImagePreviews))
            /\ Len(revokes') = Len(revokes)
            /\ \A n \in 1..Len(revokes) :
                  revokes'[n] =
                    (IF baseImagePreviews[i + 1] = "blob:" \o ToString(n)
                     THEN revokes[n] + 1 ELSE revokes[n])) ]_vars
C16_Witness ==
  /\ Len(baseImages) = 2
  /\ baseImages[1].bytes = "F1"
  /\ baseImages[2].bytes = "F3"
  /\ baseImagePreviews = <<"blob:1", "blob:3">>
  /\ revokes = <<0, 1, 0>>

\* C17: a batch handed to a draft that already holds 3 images, or an empty
\* batch, changes nothing: images, previews, current result, error and
\* history stay as they were and no object URL is created or revoked.
C17_FullDraftIgnoresBatch ==
  [][ \A k \in 0..MaxBatch :
        (processFiles(k) /\ (Len(baseImages) >= 3 \/ k = 0))
        => (/\ baseImages' = baseImages
            /\ baseImagePreviews' = baseImagePreviews
            /\ generatedImage' = generatedImage
            /\ error' = error
            /\ history' = history
            /\ blobStore' = blobStore
            /\ revokes' = revokes) ]_vars
C17_Witness ==
  /\ Len(baseImages) = 3
  /\ error = "Please upload at least one image and provide a prompt."
  /\ ENABLED processFiles(MaxBatch)

\* C18: a batch of which at least one file is accepted clears the current
\* result and the error and leaves the history, the prompt and the seed
\* unchanged.
C18_AcceptedBatchClearsResult ==
  [][ \A k \in 1..MaxBatch :
        (processFiles(k) /\ Len(baseImages) < 3)
        => (/\ generatedImage' = ""
            /\ error' = ""
            /\ history' = history
            /\ prompt' = prompt
            /\ seed' = seed) ]_vars
C18_Witness ==
  /\ Len(history) = 1
  /\ calls = 1
  /\ ~isLoading
  /\ generatedImage = ""
  /\ error = ""
  /\ baseImagePreviews = <<"blob:2">>
  /\ revokes = <<1, 0>>
  /\ prompt = "sunset"
  /\ seed = "42"

\* C19: the history changes in two ways only.  A confirmed clear empties
\* it.  A successful generation puts one new item in front of the former
\* items, which keep their fields and their order, and drops the former
\* last item if and only if the history held 20 items.  Every other step
\* leaves the history as it was.
C19_HistoryItemsImmutable ==
  [][ \/ history' = history
      \/ /\ handleClearHistory(TRUE)
         /\ history' = <<>>
      \/ /\ \E i \in 1..Len(requests), response \in Responses :
               /\ \E j \in 1..Len(response) : response[j].inlineData # <<>>
               /\ serviceResponds(i, response)
         /\ Len(history') = (IF Len(history) < 20 THEN Len(history) + 1
                             ELSE 20)
         /\ \A j \in 2..Len(history') : history'[j] = history[j - 1]
         /\ \A j \in 1..Len(history) : history[j] # history'[1] ]_vars
C19_Witness ==
  /\ Len(history) = 20
  /\ history[1].id = "history-21"
  /\ history[2].id = "history-20"
  /\ history[20].id = "history-2"
  /\ selectedHistoryItem = <<history[2]>>
  /\ baseImagePreviews = <<"data:image/png;base64,X">>

\* C20: the Clear History button empties the history when the user
\* confirms and leaves it as it was when the user declines; in both cases
\* the draft, the current result and the error are unchanged.
C20_ClearOnlyOnConfirm ==
  [][ \A confirmed \in BOOLEAN :
        handleClearHistory(confirmed)
        => (/\ history' = (IF confirmed THEN <<>> ELSE history)
            /\ draft' = draft
            /\ generatedImage' = generatedImage
            /\ error' = error) ]_vars
C20_Witness ==
  /\ history = <<>>
  /\ calls = 1
  /\ activeTab = "history"
  /\ generatedImage = "data:image/png;base64,X"
  /\ baseImages = <<>>
  /\ ~isLoading

NoCallWithoutSubmit ==
  [][ /\ calls' # calls
         => /\ calls' = calls + 1
            /\ \E i \in 1..Len(requests) :
                 /\ requests[i].pc = "reading"
                 /\ requests' = [requests EXCEPT ![i].pc = "calling"]
      /\ \A i \in 1..Len(requests) :
           requests[i].pc = "calling"
           => \/ requests' = requests
              \/ /\ requests' = SubSeq(requests, 1, i - 1)
                                \o SubSeq(requests, i + 1, Len(requests))
                 /\ calls' = calls ]_vars

\* C22: every submit that passes validation issues exactly one service
\* call (the request that was started does come to call the service), no
\* call is issued without a submit, and nothing is retried after a failure.
C22_OneCallPerSubmit ==
  /\ NoCallWithoutSubmit
  /\ (\E i \in 1..Len(requests) : requests[i].pc = "reading")
       ~> (\E i \in 1..Len(requests) : requests[i].pc = "calling")

\* C23 as stated: in the aspect-ratio build the text sent to the service is
\* the prompt followed by the sentence "The output image must have a strict
\* aspect ratio of exactly <ratio>." for the ratio selected at submit time,
\* and the item created on success has that ratio.
C23_SentenceFollowsPrompt ==
  [][ \A i \in 1..Len(requests) :
        (build = "variant" /\ filesRead(i))
        => sentText' =
             requests[i].prompt
             \o "The output image must have a strict aspect ratio of exactly "
             \o requests[i].aspectRatio \o "." ]_vars

\* C23 amended: in the aspect-ratio build the request started by a submit
\* carries the ratio selected at that moment; the text sent to the service
\* is the prompt, then "\n\n**IMPORTANT**: ", then the sentence "The output
\* image must have a strict aspect ratio of exactly <ratio>." for that
\* ratio, then " This is a critical requirement."; and the item created on
\* success has that ratio.
C23_InstructionEmbedsRatio ==
  [][ /\ (build = "variant" /\ handleSubmit /\ requests' # requests)
         => requests'[Len(requests')].aspectRatio = aspectRatio
      /\ \A i \in 1..Len(requests) :
           /\ (build = "variant" /\ filesRead(i))
              => sentText' =
                   requests[i].prompt
                   \o "\n\n**IMPORTANT**: "
                   \o "The output image must have a strict aspect ratio of exactly "
                   \o requests[i].aspectRatio \o "."
                   \o " This is a critical requirement."
           /\ (/\ build = "variant"
               /\ \E response \in Responses :
                    /\ \E j \in 1..Len(response) : response[j].inlineData # <<>>
                    /\ serviceResponds(i, response))
              => history'[1].aspectRatio = requests[i].aspectRatio ]_vars
C23_Witness ==
  /\ build = "variant"
  /\ Len(history) = 1
  /\ history[1].aspectRatio = "16:9"
  /\ history[1].prompt = "sunset"
  /\ sentText =
       "sunset\n\n**IMPORTANT**: The output image must have a strict aspect ratio of exactly 16:9. This is a critical requirement."
  /\ aspectRatio = "9:16"

\* C24: while a request is outstanding the draft is the draft that was
\* submitted: images, previews, prompt, seed and aspect ratio are those the
\* request was started with.
C24_DraftFrozenWhileLoading ==
  \A i \in 1..Len(requests) :
    /\ baseImages = requests[i].baseImages
    /\ baseImagePreviews = requests[i].baseImagePreviews
    /\ prompt = requests[i].prompt
    /\ seed = requests[i].seed
    /\ aspectRatio = requests[i].aspectRatio

\* C25: every object URL among the previews of the draft is unrevoked.
C25_DraftPreviewsLive ==
  \A i \in 1..Len(baseImagePreviews), n \in 1..Len(revokes) :
    baseImagePreviews[i] = "blob:" \o ToString(n) => revokes[n] = 0
C25_Witness ==
  /\ baseImagePreviews = <<"blob:2", "blob:4">>
  /\ revokes = <<1, 0, 1, 0>>
  /\ Len(history) = 1

\* C26: no item of the history lists a revoked object URL among its
\* baseImagePreviews.
C26_HistoryPreviewsLive ==
  \A k \in 1..Len(history) :
    \A i \in 1..Len(history[k].baseImagePreviews), n \in 1..Len(revokes) :
      history[k].baseImagePreviews[i] = "blob:" \o ToString(n)
      => revokes[n] = 0

\* C27: a request is started with the prompt, seed, aspect ratio and
\* previews of the draft at the moment of the submit, and the item that its
\* success creates records exactly those, whatever the draft has become
\* meanwhile; the recorded prompt is the user's text alone, and the text
\* that was sent to the service is that prompt (in the aspect-ratio build,
\* that prompt and the instruction after it).
C27_ItemRecordsSubmittedDraft ==
  [][ /\ (handleSubmit /\ requests' # requests)
         => LET r == requests'[Len(requests')]
            IN  /\ r.prompt = prompt
                /\ r.seed = seed
                /\ r.aspectRatio = aspectRatio
                /\ r.baseImagePreviews = baseImagePreviews
      /\ \A i \in 1..Len(requests), response \in Responses :
           (/\ \E j \in 1..Len(response) : response[j].inlineData # <<>>
            /\ serviceResponds(i, response))
           => /\ history'[1].prompt = requests[i].prompt
              /\ history'[1].seed = requests[i].seed
              /\ history'[1].baseImagePreviews = requests[i].baseImagePreviews
              /\ build = "variant"
                 => history'[1].aspectRatio = requests[i].aspectRatio
              /\ sentText =
                   (IF build = "variant"
                    THEN history'[1].prompt
                         \o "\n\n**IMPORTANT**: The output image must have a strict aspect ratio of exactly "
                         \o history'[1].aspectRatio
                         \o ". This is a critical requirement."
                    ELSE history'[1].prompt) ]_vars
C27_Witness ==
  /\ Len(history) = 1
  /\ history[1].prompt = "sunset"
  /\ history[1].seed = ""
  /\ history[1].aspectRatio = "9:16"
  /\ Len(history[1].baseImagePreviews) = 1
  /\ seed = "42"
  /\ aspectRatio = "16:9"
  /\ isLoading = FALSE
  /\ baseImages = <<>>
  /\ generatedImage = history[1].generatedImage
  /\ \E n \in 1..Len(revokes) : revokes[n] = 0

\* C28 as stated: a generated result and an error message are never
\* present together.
C28_ResultExcludesError == generatedImage = "" \/ error = ""

\* C28 amended: a generated result and an error message are present
\* together only when the error is the message of a failed improvise; the
\* message of a validation, soft or hard failure is never present with a
\* result.
C28_ResultOnlyWithImproviseError ==
  (generatedImage # "" /\ error # "")
  => error = "Could not use the generated image as a new base."
C28_Witness ==
  /\ generatedImage = "data:image/png;base64,X"
  /\ error = "Could not use the generated image as a new base."
  /\ Len(history) = 1
  /\ history[1].id = "history-2"
  /\ calls = 1
  /\ ~isLoading

\* C29: the completion of a successful improvise leaves the prompt, the
\* seed, the aspect ratio and the history as they were.
C29_ImproviseKeepsPromptAndHistory ==
  [][ \A i \in 1..Len(improvises) :
        improviseDone(i)
        => (/\ prompt' = prompt
            /\ seed' = seed
            /\ aspectRatio' = aspectRatio
            /\ history' = history) ]_vars
C29_Witness ==
  /\ baseImagePreviews = <<"data:image/png;base64,X">>
  /\ Len(baseImages) = 1
  /\ baseImages[1].name = "improvised"
  /\ improvises = <<>>
  /\ prompt = "sunset"
  /\ seed = "42"
  /\ aspectRatio = "16:9"
  /\ Len(history) = 1
  /\ generatedImage = ""
  /\ activeTab = "generator"

\* C30: the previews of the draft are pairwise distinct.
C30_PreviewsDistinct ==
  \A i \in 1..Len(baseImagePreviews), j \in 1..Len(baseImagePreviews) :
    i # j => baseImagePreviews[i] # baseImagePreviews[j]
C30_Witness ==
  /\ Len(baseImagePreviews) = 3
  /\ baseImagePreviews[1] = "data:image/png;base64,X"
  /\ baseImagePreviews[2] = "blob:3"
  /\ baseImagePreviews[3] = "blob:4"

====
